---- MODULE Spec2Model ----
(***************************************************************************)
(* TranscribeOne: the GUI's transcription job (control thread + worker     *)
(* thread + Tk "after" queue) and the pure functions of transcribeone.py.  *)
(*                                                                         *)
(* A path is a record [stem, ext] ("talk", ".mp3"); os.path.splitext is    *)
(* the projection on stem.  A transcript text is the sequence of its       *)
(* lines ("\n".join(parts) of _render_transcript).  An utterance list is   *)
(* a sequence of <<speaker, text>> pairs.                                  *)
(*                                                                         *)
(* Four specifications share the variables:                                *)
(*   Spec          the transcription jobs of the GUI                       *)
(*   RenameSpec    a job followed by edits of the rename panel             *)
(*   PlaybackSpec  the audio player                                        *)
(*   PureSpec      calls of validate_audio_file, _render_transcript and    *)
(*                 _get_speaker_display on arguments from bounded sets     *)
(***************************************************************************)
EXTENDS Integers, Sequences, FiniteSets, TLC

\* Number of jobs (accepted start requests) one run of the model follows.
MaxJobs == 2

\* Number of jobs followed when the user also edits the rename panel.
MaxRenameJobs == 1

\* Length of a playable file, in refresh intervals of the player.
MaxPosition == 2

\* Length of the longest utterance list given to the renderer.
MaxUtterances == 3

JobIds == 1..MaxJobs

------------------------------------------------------------------------------
(* Constants of the source *)

SUPPORTED_FORMATS == {".mp3", ".wav", ".flac", ".m4a", ".aac", ".ogg", ".wma", ".webm"}

VIDEO_FORMATS == {".mp4", ".mov", ".avi", ".mkv", ".webm", ".flv", ".wmv", ".m4v"}

HAS_AUDIO == TRUE

\* two of the six speeds of the source
SPEED_OPTIONS == {"1.0x", "1.5x"}

DEFAULT_SPEED == "1.0x"

------------------------------------------------------------------------------
(* Strings and paths *)

\* str.lower() on the extensions the model uses
Lower(s) ==
    CASE s = ".MP3" -> ".mp3"
      [] s = ".Wav" -> ".wav"
      [] s = ".TXT" -> ".txt"
      [] OTHER -> s

\* str.strip() on the strings the model uses
Strip(s) ==
    CASE s = " " -> ""
      [] s = " Alice" -> "Alice"
      [] s = " Bob" -> "Bob"
      [] s = "key " -> "key"
      [] OTHER -> s

NoPath == [stem |-> "", ext |-> ""]

\* The files the user can select, with what the file system says of each.
SourceFiles ==
    { [path |-> [stem |-> "talk", ext |-> ".MP3"], exists |-> TRUE, isfile |-> TRUE, readable |-> TRUE, size |-> 3],
      [path |-> [stem |-> "clip", ext |-> ".mp4"], exists |-> TRUE, isfile |-> TRUE, readable |-> TRUE, size |-> 5],
      [path |-> [stem |-> "empty", ext |-> ".wav"], exists |-> TRUE, isfile |-> TRUE, readable |-> TRUE, size |-> 0] }

Paths == { f.path : f \in SourceFiles }

\* Video files in a poor state: an empty one and one the user may not read
PoorVideoFiles ==
    { [path |-> [stem |-> "blank", ext |-> ".mov"], exists |-> TRUE, isfile |-> TRUE, readable |-> TRUE, size |-> 0],
      [path |-> [stem |-> "locked", ext |-> ".mkv"], exists |-> TRUE, isfile |-> TRUE, readable |-> FALSE, size |-> 5] }

\* A good file whose extension is in SUPPORTED_FORMATS and in VIDEO_FORMATS
WebmFiles ==
    { [path |-> [stem |-> "call", ext |-> ".webm"], exists |-> TRUE, isfile |-> TRUE, readable |-> TRUE, size |-> 4] }

FileInfo(p) ==
    IF \E f \in SourceFiles \cup PoorVideoFiles \cup WebmFiles : f.path = p
    THEN CHOOSE f \in SourceFiles \cup PoorVideoFiles \cup WebmFiles : f.path = p
    ELSE [path |-> p, exists |-> FALSE, isfile |-> FALSE, readable |-> FALSE, size |-> 0]

\* audio_file.lower().endswith(SUPPORTED_FORMATS): the test is on the end of
\* the whole path, so a file named ".mp3" (splitext: no extension) passes it
EndsWithSupported(p) ==
    \/ Lower(p.ext) \in SUPPORTED_FORMATS
    \/ p.ext = "" /\ Lower(p.stem) \in SUPPORTED_FORMATS

\* validate_audio_file with the extension test moved before the size test
ValidateFileExtFirst(f) ==
    IF ~f.exists THEN "File not found"
    ELSE IF ~f.isfile THEN "Not a file"
    ELSE IF ~f.readable THEN "Permission denied"
    ELSE IF ~EndsWithSupported(f.path) THEN "Unsupported audio format"
    ELSE IF f.size = 0 THEN "File is empty"
    ELSE "ok"

\* validate_audio_file on what the file system says of the file: the message
\* of the ValueError it raises, or "ok"
ValidateFile(f) ==
    IF ~f.exists THEN "File not found"
    ELSE IF ~f.isfile THEN "Not a file"
    ELSE IF ~f.readable THEN "Permission denied"
    ELSE IF f.size = 0 THEN "File is empty"
    ELSE IF ~EndsWithSupported(f.path) THEN "Unsupported audio format"
    ELSE "ok"

\* validate_audio_file
validate_audio_file(p) == ValidateFile(FileInfo(p))

_is_video_file(p) == Lower(p.ext) \in VIDEO_FORMATS

\* convert_video_to_audio's output path: f"{base}_audio_tmp.wav"
TmpAudioPath(p) == [stem |-> p.stem \o "_audio_tmp", ext |-> ".wav"]

\* _auto_save's output path: f"{base}-transcript.txt"
TranscriptPath(p) == [stem |-> p.stem \o "-transcript", ext |-> ".txt"]

------------------------------------------------------------------------------
(* Inputs from the user and from the services *)

ApiKeys == {"", "key "}

\* The speaker-names entry as its comma-separated pieces: <<>> is the empty
\* entry, <<" ", "">> is the entry " ,".
NameEntries == { <<>>, <<"Alice", " Bob">>, <<" ", "">> }

\* raw_names = self._speaker_names_var.get().strip(): is it non-empty?
EntryNonEmpty(entry) ==
    \/ Len(entry) > 1
    \/ Len(entry) = 1 /\ Strip(entry[1]) # ""

\* [n.strip() for n in raw_names.split(",") if n.strip()] if raw_names else []
ParseSpeakerNames(entry) ==
    IF EntryNonEmpty(entry)
    THEN LET stripped == [i \in 1..Len(entry) |-> Strip(entry[i])]
         IN SelectSeq(stripped, LAMBDA n : n # "")
    ELSE <<>>

\* transcript.utterances as the transcription service may return them
RawUtterances == { <<>>, << <<"A", "hi">>, <<"B", "yo">> >> }

\* What transcriber.transcribe does: a transcript, an error status, or an exception.
TranscribeOutcomes ==
    { [kind |-> "completed", utterances |-> u] : u \in RawUtterances }
    \cup { [kind |-> "error", utterances |-> <<>>], [kind |-> "raise", utterances |-> <<>>] }

\* What the identification request does: urlopen/read/decode/json.loads raise,
\* or a decoded body arrives.  body = "utterances" is the expected envelope;
\* the service names every speaker, or leaves one under its generic label.
IdentifyOutcomes ==
    { [raises |-> e, body |-> "none", utterances |-> <<>>] :
        e \in {"URLError", "HTTPError", "JSONDecodeError", "TimeoutError", "UnicodeDecodeError"} }
    \cup { [raises |-> "none", body |-> b, utterances |-> <<>>] : b \in {"missing_key", "not_a_dict"} }
    \cup { [raises |-> "none", body |-> "utterances", utterances |-> u] :
             u \in { <<>>, << <<"Alice", "hi">>, <<"Bob", "yo">> >>,
                     << <<"A", "hi">>, <<"Bob", "yo">> >> } }

\* result.stderr[:500]
DiagnosticLimit == 500

\* the string of n copies of the character c
RECURSIVE Repeat(_, _)
Repeat(c, n) ==
    IF n = 0 THEN ""
    ELSE LET h == Repeat(c, n \div 2)
         IN IF n % 2 = 0 THEN h \o h ELSE h \o h \o c

\* What ffmpeg does: found on the PATH or not, its return code and what it
\* wrote to stderr (nothing, a line, more than the limit)
ConvertOutcomes ==
    { [found |-> FALSE, returncode |-> 0, stderr |-> ""],
      [found |-> TRUE, returncode |-> 0, stderr |-> ""],
      [found |-> TRUE, returncode |-> 1, stderr |-> "clip.mp4: Invalid data"],
      [found |-> TRUE, returncode |-> 1, stderr |-> Repeat("e", DiagnosticLimit + 1)] }

\* s[:n]
Slice(s, n) == SubSeq(s, 1, IF Len(s) < n THEN Len(s) ELSE n)

\* convert_video_to_audio raising with the whole of stderr
ConvertUntruncated(video_path, outcome) ==
    IF ~outcome.found
    THEN [exc |-> "ffmpeg is not installed. Install it with: brew install ffmpeg", tmp_audio |-> NoPath]
    ELSE IF outcome.returncode # 0
    THEN [exc |-> "ffmpeg conversion failed:\n" \o outcome.stderr, tmp_audio |-> NoPath]
    ELSE [exc |-> "none", tmp_audio |-> TmpAudioPath(video_path)]

\* convert_video_to_audio: [exc, tmp_audio]; exc = "none" when it returns
convert_video_to_audio(video_path, outcome) ==
    IF ~outcome.found
    THEN [exc |-> "ffmpeg is not installed. Install it with: brew install ffmpeg", tmp_audio |-> NoPath]
    ELSE IF outcome.returncode # 0
    THEN [exc |-> "ffmpeg conversion failed:\n" \o Slice(outcome.stderr, DiagnosticLimit),
          tmp_audio |-> NoPath]
    ELSE [exc |-> "none", tmp_audio |-> TmpAudioPath(video_path)]

------------------------------------------------------------------------------
(* Pure functions of transcribeone.py *)

\* run_transcription: [exc, results]; exc = "none" when it returns
run_transcription(outcome) ==
    CASE outcome.kind = "raise" -> [exc |-> "service unreachable", results |-> <<>>]
      [] outcome.kind = "error" -> [exc |-> "Transcription failed: bad audio", results |-> <<>>]
      [] OTHER -> [exc |-> "none", results |-> outcome.utterances]

\* identify_speakers: [exc, results]; exc = "none" when it returns
identify_speakers(outcome) ==
    IF outcome.raises \in {"URLError", "HTTPError", "JSONDecodeError"}
    THEN [exc |-> "none", results |-> <<>>]
    ELSE IF outcome.raises # "none"
    THEN [exc |-> outcome.raises, results |-> <<>>]
    ELSE IF outcome.body \in {"missing_key", "not_a_dict"}
    THEN [exc |-> "none", results |-> <<>>]
    ELSE [exc |-> "none", results |-> outcome.utterances]

------------------------------------------------------------------------------
(* Transcript rendering *)

\* _format_speaker
_format_speaker(label, identified) ==
    IF identified \/ Len(label) > 1 THEN label ELSE "SPEAKER " \o label

\* self._speaker_name_vars is a sequence of [label, value] in insertion order
HasNameVar(nameVars, label) == \E i \in 1..Len(nameVars) : nameVars[i].label = label

NameVar(nameVars, label) ==
    nameVars[CHOOSE i \in 1..Len(nameVars) : nameVars[i].label = label].value

\* _get_speaker_display
_get_speaker_display(nameVars, label, identified) ==
    IF HasNameVar(nameVars, label) /\ Strip(NameVar(nameVars, label)) # ""
    THEN Strip(NameVar(nameVars, label))
    ELSE _format_speaker(label, identified)

RECURSIVE RenderParts(_, _, _, _)
RenderParts(results, i, nameVars, identified) ==
    IF i > Len(results) THEN <<>>
    ELSE LET speaker == results[i][1]
             line == _get_speaker_display(nameVars, speaker, identified) \o ": " \o results[i][2]
             sep == IF i > 1 /\ speaker # results[i - 1][1] THEN <<"">> ELSE <<>>
         IN sep \o <<line>> \o RenderParts(results, i + 1, nameVars, identified)

\* _render_transcript with a blank line between every two utterances
RenderEveryLineApart(results, nameVars, identified) ==
    IF results = <<>> THEN <<"No speech detected.">>
    ELSE [k \in 1..(2 * Len(results) - 1) |->
            IF k % 2 = 0 THEN ""
            ELSE LET u == results[(k + 1) \div 2]
                 IN _get_speaker_display(nameVars, u[1], identified) \o ": " \o u[2]]

\* _render_transcript: the text put into the result widget
_render_transcript(results, nameVars, identified) ==
    IF results = <<>> THEN <<"No speech detected.">>
    ELSE RenderParts(results, 1, nameVars, identified)

RECURSIVE UniqueSpeakers(_, _, _)
UniqueSpeakers(results, i, acc) ==
    IF i > Len(results) \/ Len(acc) >= 6 THEN acc
    ELSE IF \E k \in 1..Len(acc) : acc[k] = results[i][1]
    THEN UniqueSpeakers(results, i + 1, acc)
    ELSE UniqueSpeakers(results, i + 1, Append(acc, results[i][1]))

\* _build_rename_fields: one empty field per unique speaker, up to 6
_build_rename_fields(results) ==
    LET speakers == UniqueSpeakers(results, 1, <<>>)
    IN [i \in 1..Len(speakers) |-> [label |-> speakers[i], value |-> ""]]

------------------------------------------------------------------------------
(* State *)

VARIABLES
    app,            \* the TranscribeOneApp object: its fields and widgets
    aaiApiKey,      \* aai.settings.api_key
    phase,          \* "running", then "destroyed" once _on_close has run root.destroy()
    queue,          \* Tk's queue of root.after(0, ...) callbacks
    tmpOnDisk,      \* the converted-audio files that exist on disk
    savedFiles,     \* the transcript files on disk: path -> content
    workers,        \* the worker thread of each job: its position and locals
    \* history
    nJobs,          \* the number of worker threads started so far
    startOutcome,   \* how the last call of _start_transcription ended: "active"
                    \* (returned at line 900), "refused" (a dialog, then return),
                    \* "raised" (the except clause ran) or "started"
    postedLog,      \* the callbacks posted since the last job started, in
                    \* posting order: <<job, kind>>
    appliedLog,     \* the callbacks the control thread ran since then, in order
    \* outside the application
    call            \* a call of one of the pure functions: its arguments and,
                    \* once it has returned, its result

vars == <<app, aaiApiKey, phase, queue, tmpOnDisk, savedFiles, workers,
          nJobs, startOutcome, postedLog, appliedLog, call>>

\* no function is being called
NoCall == [fn |-> "none"]

NoMessage == <<"", "">>

\* pygame.mixer.music after pygame.mixer.init(): nothing loaded, not playing.
\* pos is the position in the stream, elapsed what get_pos() reports (the time
\* played since the last play()), freq the speed the mixer was initialised for.
InitialMusic ==
    [state |-> "stopped", loaded |-> NoPath, pos |-> 0, elapsed |-> 0, freq |-> DEFAULT_SPEED]

\* TranscribeOneApp.__init__ (the widgets as _build_ui leaves them)
InitialApp ==
    [ api_key_var |-> "",             \* _api_key_var
      audio_path_var |-> NoPath,      \* _audio_path_var
      speaker_names_var |-> <<>>,     \* _speaker_names_var, as comma-separated pieces
      status_var |-> "Ready",         \* _status_var
      transcribing |-> FALSE,         \* _transcribing
      ui_busy |-> FALSE,              \* _transcribe_btn, _api_key_entry, _toggle_btn disabled
      progress_running |-> FALSE,     \* _progress started
      tmp_audio_file |-> NoPath,      \* _tmp_audio_file
      current_audio_file |-> NoPath,  \* _current_audio_file
      raw_results |-> <<>>,           \* _raw_results
      speaker_name_vars |-> <<>>,     \* _speaker_name_vars
      rename_shown |-> FALSE,         \* _rename_outer packed
      result_text |-> <<>>,           \* _result_text
      copy_save_enabled |-> FALSE,    \* _copy_btn, _save_btn enabled
      output_path_label |-> "",       \* _output_path_label
      message_box |-> NoMessage,      \* the last messagebox shown: <<title, message>>
      playing |-> FALSE,              \* _playing
      paused |-> FALSE,               \* _paused
      speed_var |-> DEFAULT_SPEED,    \* _speed_var
      position_var |-> 0,             \* _position_var, the seek bar's variable
      time_label |-> 0,               \* the position shown by _time_label
      duration |-> 0,                 \* _duration
      position_update_id |-> "none",  \* _position_update_id: "none" (None), the id of
                                      \* a "pending" timer, or of one that has "fired"
      timers |-> 0,                   \* the _update_position timers pending in Tk
      loaded_audio_path |-> NoPath,   \* _loaded_audio_path
      music |-> InitialMusic ]        \* pygame.mixer.music

\* A worker thread that has not been created
IdleWorker ==
    [pc |-> "idle", audio_file |-> NoPath, api_key |-> "", speaker_names |-> <<>>,
     is_video |-> FALSE, actual_audio |-> NoPath, raw |-> <<>>, results |-> <<>>,
     identified |-> <<>>,
     speakers_identified |-> FALSE, exc |-> "none", submitted |-> NoPath,
     trCalls |-> 0, idCalls |-> 0, idFailed |-> FALSE, terminals |-> 0]

\* main(): the app is constructed, _load_preferences has filled in a stored key
JobInit ==
    /\ \E k \in ApiKeys : app = [InitialApp EXCEPT !.api_key_var = k]
    /\ aaiApiKey = ""
    /\ phase = "running"
    /\ queue = <<>>
    /\ tmpOnDisk = {}
    /\ savedFiles = <<>>
    /\ workers = [j \in JobIds |-> IdleWorker]
    /\ nJobs = 0
    /\ startOutcome = "none"
    /\ postedLog = <<>>
    /\ appliedLog = <<>>

Init == JobInit /\ call = NoCall

\* A worker thread that has ended: its locals are gone, the count of terminal
\* callbacks it posted is kept
Ended(w, how, terminals) == [IdleWorker EXCEPT !.pc = how, !.terminals = terminals]

\* The worker threads that are running
Live(j) == workers[j].pc \notin {"idle", "returned", "uncaught"}

------------------------------------------------------------------------------
(* The user's inputs (control thread) *)

\* typing a key into the empty API key entry (_set_ui_busy disables the entry
\* messagebox.showerror / showwarning is modal: the handler that shows it blocks
\* until the user dismisses it, so every later handler starts with no dialog up
Dismissed == [app EXCEPT !.message_box = NoMessage]

\* during a job)
SetApiKey(k) ==
    /\ phase = "running"
    /\ ~app.ui_busy
    /\ app.api_key_var = ""
    /\ k # ""
    /\ app' = [Dismissed EXCEPT !.api_key_var = k]
    /\ UNCHANGED <<aaiApiKey, phase, queue, tmpOnDisk, savedFiles, workers,
                   nJobs, startOutcome, postedLog, appliedLog, call>>

\* typing into the speaker-names entry
SetSpeakerNames(entry) ==
    /\ phase = "running"
    /\ entry # app.speaker_names_var
    /\ app' = [Dismissed EXCEPT !.speaker_names_var = entry]
    /\ UNCHANGED <<aaiApiKey, phase, queue, tmpOnDisk, savedFiles, workers,
                   nJobs, startOutcome, postedLog, appliedLog, call>>

\* pygame.mixer.music.stop()
MusicStop(m) == [m EXCEPT !.state = "stopped", !.pos = 0, !.elapsed = 0]

\* pygame.mixer.music.play(start=t)
MusicPlay(m, t) == [m EXCEPT !.state = "playing", !.pos = t, !.elapsed = 0]

\* _stop_position_updates: after_cancel removes the timer if it is still pending
_stop_position_updates(a) ==
    IF a.position_update_id = "none" THEN a
    ELSE [a EXCEPT !.position_update_id = "none",
                   !.timers = IF a.position_update_id = "pending" THEN @ - 1 ELSE @]

\* _stop_playback that leaves the refresh timer running
StopKeepsRefresh(a) ==
    [a EXCEPT !.music = MusicStop(@), !.playing = FALSE, !.paused = FALSE,
              !.position_var = 0, !.time_label = 0]

\* _stop_playback
_stop_playback(a) ==
    IF HAS_AUDIO
    THEN _stop_position_updates(
            [a EXCEPT !.music = MusicStop(@), !.playing = FALSE, !.paused = FALSE,
                      !.position_var = 0, !.time_label = 0])
    ELSE a

\* _set_audio_path without its call of _stop_playback
SetAudioPathKeepsPlaying(p) ==
    /\ phase = "running"
    /\ app' = [Dismissed EXCEPT !.audio_path_var = p, !.loaded_audio_path = NoPath]
    /\ UNCHANGED <<aaiApiKey, phase, queue, tmpOnDisk, savedFiles, workers,
                   nJobs, startOutcome, postedLog, appliedLog, call>>

\* _set_audio_path (from _browse_file, _on_drop, _mac_open_document)
SetAudioPath(p) ==
    /\ phase = "running"
    /\ app' = [_stop_playback(Dismissed) EXCEPT !.audio_path_var = p, !.loaded_audio_path = NoPath]
    /\ UNCHANGED <<aaiApiKey, phase, queue, tmpOnDisk, savedFiles, workers,
                   nJobs, startOutcome, postedLog, appliedLog, call>>

\* _set_ui_busy leaving the controls as they are
SetUIBusyIgnored(a, busy) == a

\* _set_ui_busy that also stops the player
SetUIBusyStopsPlayback(a, busy) == [_stop_playback(a) EXCEPT !.ui_busy = busy]

\* _set_ui_busy
_set_ui_busy(a, busy) == [a EXCEPT !.ui_busy = busy]

\* _cleanup_tmp_audio: <<the app object, the files on disk>> it leaves
_cleanup_tmp_audio(a, disk) ==
    IF a.tmp_audio_file # NoPath /\ a.tmp_audio_file \in disk
    THEN <<[a EXCEPT !.tmp_audio_file = NoPath], disk \ {a.tmp_audio_file}>>
    ELSE <<a, disk>>

------------------------------------------------------------------------------
(* Starting a job (control thread) *)

\* What can raise inside _start_transcription's try block after validation:
\* _save_preferences (before the UI is locked) or thread.start() (after).
SetupFaults == {"none", "save_preferences", "thread_start"}

\* the thread _start_transcription creates
NewWorker(audio_file, api_key, speaker_names, is_video) ==
    [IdleWorker EXCEPT !.pc = "cleanup", !.audio_file = audio_file, !.api_key = api_key,
                       !.speaker_names = speaker_names, !.is_video = is_video]

\* a start request that does not look at the flag
StartRejectedNever(a) == FALSE

\* _start_transcription line 899: if self._transcribing: return
StartRejected(a) == a.transcribing

\* locking the UI without raising the job-active flag
LockUIWithoutFlag(a, is_video) ==
    [_set_ui_busy(a, TRUE) EXCEPT
        !.status_var = IF is_video THEN "Converting video to audio"
                       ELSE "Uploading and transcribing",
        !.progress_running = TRUE]

\* _start_transcription lines 934-942: lock the UI, set the first status
LockUI(a, is_video) ==
    [_set_ui_busy([a EXCEPT !.transcribing = TRUE], TRUE) EXCEPT
        !.status_var = IF is_video THEN "Converting video to audio"
                       ELSE "Uploading and transcribing",
        !.progress_running = TRUE]

\* _start_transcription
StartTranscription ==
    /\ phase = "running"
    /\ \E fault \in SetupFaults :
       LET api_key == Strip(app.api_key_var)
           audio_file == app.audio_path_var
           is_video == _is_video_file(audio_file)
           checked == IF is_video
                      THEN (IF FileInfo(audio_file).isfile THEN "ok" ELSE "Cannot find")
                      ELSE validate_audio_file(audio_file)
           speaker_names == ParseSpeakerNames(app.speaker_names_var)
           locked == LockUI(Dismissed, is_video)
           failed == <<"Error", "Failed to start transcription">>
       IN
       IF StartRejected(app) THEN
           /\ startOutcome' = "active"
           /\ app' = Dismissed
           /\ UNCHANGED <<aaiApiKey, workers, nJobs>>
       ELSE IF api_key = "" THEN
           /\ startOutcome' = "refused"
           /\ app' = [Dismissed EXCEPT !.message_box = <<"Missing API Key", "Please enter your AssemblyAI API key.">>]
           /\ UNCHANGED <<aaiApiKey, workers, nJobs>>
       ELSE IF audio_file = NoPath THEN
           /\ startOutcome' = "refused"
           /\ app' = [Dismissed EXCEPT !.message_box = <<"No File Selected", "Please select an audio file to transcribe.">>]
           /\ UNCHANGED <<aaiApiKey, workers, nJobs>>
       ELSE IF checked # "ok" THEN
           /\ startOutcome' = "refused"
           /\ app' = [Dismissed EXCEPT !.message_box = <<IF is_video THEN "File Not Found" ELSE "Invalid File", checked>>]
           /\ UNCHANGED <<aaiApiKey, workers, nJobs>>
       ELSE IF fault = "save_preferences" THEN
           /\ startOutcome' = "raised"
           /\ aaiApiKey' = api_key
           /\ app' = _set_ui_busy([Dismissed EXCEPT !.message_box = failed, !.transcribing = FALSE], FALSE)
           /\ UNCHANGED <<workers, nJobs>>
       ELSE IF fault = "thread_start" THEN
           /\ startOutcome' = "raised"
           /\ aaiApiKey' = api_key
           /\ app' = _set_ui_busy([locked EXCEPT !.message_box = failed, !.transcribing = FALSE], FALSE)
           /\ UNCHANGED <<workers, nJobs>>
       ELSE
           /\ nJobs < MaxJobs
           /\ startOutcome' = "started"
           /\ aaiApiKey' = api_key
           /\ app' = locked
           /\ nJobs' = nJobs + 1
           /\ workers' = [workers EXCEPT ![nJobs + 1] =
                            NewWorker(audio_file, api_key, speaker_names, is_video)]
    /\ IF startOutcome' = "started"
       THEN postedLog' = <<>> /\ appliedLog' = <<>>
       ELSE UNCHANGED <<postedLog, appliedLog>>
    /\ UNCHANGED <<phase, queue, tmpOnDisk, savedFiles, call>>

------------------------------------------------------------------------------
(* The worker thread: _transcription_worker, one action per statement *)

StatusEvent(j, text) ==
    [job |-> j, kind |-> "status", status |-> text, audio_file |-> NoPath,
     results |-> <<>>, identified |-> FALSE, message |-> ""]

CompleteEvent(j, audio_file, results, identified) ==
    [job |-> j, kind |-> "complete", status |-> "", audio_file |-> audio_file,
     results |-> results, identified |-> identified, message |-> ""]

ErrorEvent(j, message) ==
    [job |-> j, kind |-> "error", status |-> "", audio_file |-> NoPath,
     results |-> <<>>, identified |-> FALSE, message |-> message]

\* a callback that jumps the queue
PostAtFront(q, e) == <<e>> \o q

\* self.root.after(0, callback, ...): the callback joins the end of Tk's queue
Post(q, e) == Append(q, e)

\* What root.after raises once the root window is destroyed
AfterDestroyed == "main thread is not in main loop"

\* identification attempted whenever there are results
ShouldIdentifyAnyNames(results, speaker_names) == results # <<>>

\* line 971: if results and speaker_names
ShouldIdentify(results, speaker_names) == results # <<>> /\ speaker_names # <<>>

\* the worker going from the clean-up straight to the transcription
WorkerCleanupSkipsConversion(j) ==
    /\ workers[j].pc = "cleanup"
    /\ LET r == _cleanup_tmp_audio(app, tmpOnDisk) IN
       /\ app' = r[1]
       /\ tmpOnDisk' = r[2]
    /\ workers' = [workers EXCEPT ![j].pc = "transcribe",
                                  ![j].actual_audio = workers[j].audio_file]
    /\ UNCHANGED <<aaiApiKey, phase, queue, savedFiles, nJobs, startOutcome, postedLog, appliedLog, call>>

\* line 959: self._cleanup_tmp_audio()
WorkerCleanup(j) ==
    /\ workers[j].pc = "cleanup"
    /\ LET r == _cleanup_tmp_audio(app, tmpOnDisk) IN
       /\ app' = r[1]
       /\ tmpOnDisk' = r[2]
    /\ workers' = [workers EXCEPT ![j].pc = IF workers[j].is_video THEN "convert" ELSE "transcribe",
                                  ![j].actual_audio = workers[j].audio_file]
    /\ UNCHANGED <<aaiApiKey, phase, queue, savedFiles, nJobs, startOutcome, postedLog, appliedLog, call>>

\* line 964: actual_audio = convert_video_to_audio(audio_file)
WorkerConvertWith(j, outcome) ==
    /\ workers[j].pc = "convert"
    /\ LET r == convert_video_to_audio(workers[j].audio_file, outcome) IN
       IF r.exc = "none"
       THEN /\ tmpOnDisk' = tmpOnDisk \cup {r.tmp_audio}
            /\ workers' = [workers EXCEPT ![j].pc = "set_tmp", ![j].actual_audio = r.tmp_audio]
       ELSE /\ workers' = [workers EXCEPT ![j].pc = "post_error", ![j].exc = r.exc]
            /\ UNCHANGED tmpOnDisk
    /\ UNCHANGED <<app, aaiApiKey, phase, queue, savedFiles, nJobs, startOutcome, postedLog, appliedLog, call>>

WorkerConvert(j) == \E outcome \in ConvertOutcomes : WorkerConvertWith(j, outcome)

\* line 965: self._tmp_audio_file = actual_audio
WorkerSetTmp(j) ==
    /\ workers[j].pc = "set_tmp"
    /\ app' = [app EXCEPT !.tmp_audio_file = workers[j].actual_audio]
    /\ workers' = [workers EXCEPT ![j].pc = "post_uploading"]
    /\ UNCHANGED <<aaiApiKey, phase, queue, tmpOnDisk, savedFiles, nJobs, startOutcome, postedLog, appliedLog, call>>

\* A root.after inside the try block: posted, or raising into the except clause
PostInTry(j, e, next) ==
    IF phase = "running"
    THEN /\ queue' = Post(queue, e)
         /\ postedLog' = Append(postedLog, <<j, e.kind>>)
         /\ workers' = [workers EXCEPT ![j] =
                          IF e.kind = "status" THEN [@ EXCEPT !.pc = next]
                          ELSE Ended(@, next, @.terminals + 1)]
    ELSE /\ workers' = [workers EXCEPT ![j].pc = "post_error", ![j].exc = AfterDestroyed]
         /\ UNCHANGED <<queue, postedLog>>

\* line 966: self.root.after(0, self._status_var.set, "Uploading and transcribing...")
WorkerPostUploading(j) ==
    /\ workers[j].pc = "post_uploading"
    /\ PostInTry(j, StatusEvent(j, "Uploading and transcribing"), "transcribe")
    /\ UNCHANGED <<app, aaiApiKey, phase, tmpOnDisk, savedFiles, nJobs, startOutcome, appliedLog, call>>

\* lines 968-971: transcript_id, results = transcribeone.run_transcription(actual_audio)
WorkerTranscribe(j) ==
    /\ workers[j].pc = "transcribe"
    /\ \E outcome \in TranscribeOutcomes :
       LET r == run_transcription(outcome) IN
       IF r.exc # "none"
       THEN workers' = [workers EXCEPT ![j].pc = "post_error", ![j].exc = r.exc,
                                       ![j].submitted = workers[j].actual_audio,
                                       ![j].trCalls = @ + 1]
       ELSE workers' = [workers EXCEPT
                          ![j].pc = IF ShouldIdentify(r.results, workers[j].speaker_names)
                                    THEN "post_identifying" ELSE "post_complete",
                          ![j].submitted = workers[j].actual_audio,
                          ![j].raw = r.results, ![j].results = r.results,
                          ![j].speakers_identified = FALSE, ![j].trCalls = @ + 1]
    /\ UNCHANGED <<app, aaiApiKey, phase, queue, tmpOnDisk, savedFiles, nJobs, startOutcome,
                   postedLog, appliedLog, call>>

\* line 972: self.root.after(0, self._status_var.set, "Identifying speakers...")
WorkerPostIdentifying(j) ==
    /\ workers[j].pc = "post_identifying"
    /\ PostInTry(j, StatusEvent(j, "Identifying speakers"), "identify")
    /\ UNCHANGED <<app, aaiApiKey, phase, tmpOnDisk, savedFiles, nJobs, startOutcome, appliedLog, call>>

\* the flag raised whatever identify_speakers returned
UseIdentifiedAlwaysFlagged(w, identified) ==
    [w EXCEPT !.identified = identified,
              !.results = IF identified # <<>> THEN identified ELSE @,
              !.speakers_identified = TRUE]

\* lines 978-980: if identified: results = identified; speakers_identified = True
UseIdentified(w, identified) ==
    [w EXCEPT !.identified = identified,
              !.results = IF identified # <<>> THEN identified ELSE @,
              !.speakers_identified = (identified # <<>>)]

\* lines 973-980: identified = transcribeone.identify_speakers(...); if identified: ...
WorkerIdentify(j) ==
    /\ workers[j].pc = "identify"
    /\ \E outcome \in IdentifyOutcomes :
       LET r == identify_speakers(outcome)
           callFailed == outcome.raises # "none" \/ outcome.body # "utterances"
       IN
       IF r.exc # "none"
       THEN workers' = [workers EXCEPT ![j].pc = "post_error", ![j].exc = r.exc,
                                       ![j].idCalls = @ + 1, ![j].idFailed = callFailed]
       ELSE workers' = [workers EXCEPT
                          ![j] = [UseIdentified(@, r.results) EXCEPT
                                    !.pc = "post_complete",
                                    !.idCalls = @ + 1, !.idFailed = callFailed]]
    /\ UNCHANGED <<app, aaiApiKey, phase, queue, tmpOnDisk, savedFiles, nJobs, startOutcome,
                   postedLog, appliedLog, call>>

\* line 983: self.root.after(0, self._on_transcription_complete, audio_file, results, ...)
WorkerPostComplete(j) ==
    /\ workers[j].pc = "post_complete"
    /\ PostInTry(j, CompleteEvent(j, workers[j].audio_file, workers[j].results,
                                  workers[j].speakers_identified), "returned")
    /\ UNCHANGED <<app, aaiApiKey, phase, tmpOnDisk, savedFiles, nJobs, startOutcome, appliedLog, call>>

\* lines 984-985: except Exception as exc: self.root.after(0, self._on_transcription_error, str(exc))
WorkerPostError(j) ==
    /\ workers[j].pc = "post_error"
    /\ IF phase = "running"
       THEN /\ queue' = Post(queue, ErrorEvent(j, workers[j].exc))
            /\ postedLog' = Append(postedLog, <<j, "error">>)
            /\ workers' = [workers EXCEPT ![j] = Ended(@, "returned", @.terminals + 1)]
       ELSE /\ workers' = [workers EXCEPT ![j] = Ended(@, "uncaught", @.terminals)]
            /\ UNCHANGED <<queue, postedLog>>
    /\ UNCHANGED <<app, aaiApiKey, phase, tmpOnDisk, savedFiles, nJobs, startOutcome, appliedLog, call>>

------------------------------------------------------------------------------
(* The control thread runs the callbacks of Tk's queue *)

\* Tk's event loop takes the oldest callback
NextCallback(q) == Head(q)

Remaining(q) == Tail(q)

Basename(p) == p.stem \o p.ext

\* _auto_save writing the text without the final newline
AutoSaveNoNewline(a, files, writeOk) ==
    IF a.current_audio_file = NoPath THEN <<a, files>>
    ELSE LET output_path == TranscriptPath(a.current_audio_file) IN
         IF writeOk
         THEN << [a EXCEPT !.output_path_label = "Saved: " \o Basename(output_path)],
                 (output_path :> a.result_text) @@ files >>
         ELSE << [a EXCEPT !.output_path_label = "", !.status_var = "Done (save failed)"],
                 files >>

\* _auto_save: <<the app object, the transcript files>> it leaves
\* _auto_save writing next to the file selected at the time of the save
AutoSaveNextToSelected(a, files, writeOk) ==
    IF a.audio_path_var = NoPath THEN <<a, files>>
    ELSE LET output_path == TranscriptPath(a.audio_path_var) IN
         IF writeOk
         THEN << [a EXCEPT !.output_path_label = "Saved: " \o Basename(output_path)],
                 (output_path :> Append(a.result_text, "")) @@ files >>
         ELSE << [a EXCEPT !.output_path_label = "", !.status_var = "Done (save failed)"],
                 files >>

_auto_save(a, files, writeOk) ==
    IF a.current_audio_file = NoPath THEN <<a, files>>
    ELSE LET output_path == TranscriptPath(a.current_audio_file) IN
         IF writeOk
         THEN << [a EXCEPT !.output_path_label = "Saved: " \o Basename(output_path)],
                 (output_path :> Append(a.result_text, "")) @@ files >>
         ELSE << [a EXCEPT !.output_path_label = "", !.status_var = "Done (save failed)"],
                 files >>

\* _render_transcript on the app object
RenderInto(a, identified) ==
    [a EXCEPT !.result_text = _render_transcript(a.raw_results, a.speaker_name_vars, identified),
              !.copy_save_enabled = TRUE]

\* self._status_var.set(text), posted by the worker
ApplyStatus ==
    /\ phase = "running"
    /\ queue # <<>>
    /\ NextCallback(queue).kind = "status"
    /\ app' = [Dismissed EXCEPT !.status_var = NextCallback(queue).status]
    /\ queue' = Remaining(queue)
    /\ appliedLog' = Append(appliedLog, <<NextCallback(queue).job, "status">>)
    /\ UNCHANGED <<aaiApiKey, phase, tmpOnDisk, savedFiles, workers, nJobs, startOutcome, postedLog, call>>

\* _on_transcription_complete; writeOk: open() and write() in _auto_save succeed
OnTranscriptionCompleteSaving(writeOk) ==
    /\ phase = "running"
    /\ queue # <<>>
    /\ NextCallback(queue).kind = "complete"
    /\ LET e == NextCallback(queue)
           a1 == [_set_ui_busy(Dismissed, FALSE) EXCEPT
                    !.progress_running = FALSE, !.transcribing = FALSE,
                    !.current_audio_file = e.audio_file, !.raw_results = e.results]
           a2 == IF e.results # <<>> /\ ~e.identified
                 THEN [a1 EXCEPT !.speaker_name_vars = _build_rename_fields(e.results),
                                 !.rename_shown = TRUE]
                 ELSE [a1 EXCEPT !.rename_shown = FALSE]
           saved == _auto_save(RenderInto(a2, e.identified), savedFiles, writeOk)
       IN
       /\ app' = [saved[1] EXCEPT !.status_var =
                     IF ~e.identified /\ EntryNonEmpty(app.speaker_names_var)
                     THEN "Done (speaker identification unavailable)"
                     ELSE "Done"]
       /\ savedFiles' = saved[2]
    /\ queue' = Remaining(queue)
    /\ appliedLog' = Append(appliedLog, <<NextCallback(queue).job, "complete">>)
    /\ UNCHANGED <<aaiApiKey, phase, tmpOnDisk, workers, nJobs, startOutcome, postedLog, call>>

OnTranscriptionComplete == \E writeOk \in BOOLEAN : OnTranscriptionCompleteSaving(writeOk)

\* What the user types into the rename fields
RenameValues == {"", "Zoe"}

\* typing into the rename field of a speaker (the panel is packed)
SetRenameField(label, value) ==
    /\ phase = "running"
    /\ app.rename_shown
    /\ \E i \in 1..Len(app.speaker_name_vars) :
         /\ app.speaker_name_vars[i].label = label
         /\ app.speaker_name_vars[i].value # value
         /\ app' = [Dismissed EXCEPT !.speaker_name_vars[i].value = value]
    /\ UNCHANGED <<aaiApiKey, phase, queue, tmpOnDisk, savedFiles, workers,
                   nJobs, startOutcome, postedLog, appliedLog, call>>

\* _apply_speaker_names rendering with speakers_identified = True
ApplyNamesAsIdentified(writeOk) ==
    /\ phase = "running"
    /\ app.rename_shown
    /\ LET saved == _auto_save(RenderInto(Dismissed, TRUE), savedFiles, writeOk) IN
       /\ app' = [saved[1] EXCEPT !.status_var = "Names applied and saved"]
       /\ savedFiles' = saved[2]
    /\ UNCHANGED <<aaiApiKey, phase, queue, tmpOnDisk, workers,
                   nJobs, startOutcome, postedLog, appliedLog, call>>

\* _apply_speaker_names (the Apply Names button of the rename panel)
ApplyNamesSaving(writeOk) ==
    /\ phase = "running"
    /\ app.rename_shown
    /\ LET saved == _auto_save(RenderInto(Dismissed, FALSE), savedFiles, writeOk) IN
       /\ app' = [saved[1] EXCEPT !.status_var = "Names applied and saved"]
       /\ savedFiles' = saved[2]
    /\ UNCHANGED <<aaiApiKey, phase, queue, tmpOnDisk, workers,
                   nJobs, startOutcome, postedLog, appliedLog, call>>

ApplyNames == \E writeOk \in BOOLEAN : ApplyNamesSaving(writeOk)

\* _on_transcription_error wiping what the last successful job left
OnTranscriptionErrorClears ==
    /\ phase = "running"
    /\ queue # <<>>
    /\ NextCallback(queue).kind = "error"
    /\ app' = [_set_ui_busy(Dismissed, FALSE) EXCEPT
                 !.progress_running = FALSE, !.transcribing = FALSE, !.status_var = "Error",
                 !.result_text = <<>>, !.raw_results = <<>>, !.rename_shown = FALSE,
                 !.message_box = <<"Transcription Error", NextCallback(queue).message>>]
    /\ queue' = Remaining(queue)
    /\ appliedLog' = Append(appliedLog, <<NextCallback(queue).job, "error">>)
    /\ UNCHANGED <<aaiApiKey, phase, tmpOnDisk, savedFiles, workers, nJobs, startOutcome, postedLog, call>>

\* _on_transcription_error
OnTranscriptionError ==
    /\ phase = "running"
    /\ queue # <<>>
    /\ NextCallback(queue).kind = "error"
    /\ app' = [_set_ui_busy(Dismissed, FALSE) EXCEPT
                 !.progress_running = FALSE, !.transcribing = FALSE, !.status_var = "Error",
                 !.message_box = <<"Transcription Error", NextCallback(queue).message>>]
    /\ queue' = Remaining(queue)
    /\ appliedLog' = Append(appliedLog, <<NextCallback(queue).job, "error">>)
    /\ UNCHANGED <<aaiApiKey, phase, tmpOnDisk, savedFiles, workers, nJobs, startOutcome, postedLog, call>>

\* _on_close: root.destroy() drops the callbacks still queued.  main() then
\* returns and the process ends, stopping a daemon worker wherever it is: any
\* prefix of the worker's remaining steps can still happen.
OnClose ==
    /\ phase = "running"
    /\ LET r == _cleanup_tmp_audio(_stop_playback(Dismissed), tmpOnDisk) IN
       /\ app' = r[1]
       /\ tmpOnDisk' = r[2]
    /\ phase' = "destroyed"
    /\ queue' = <<>>
    /\ UNCHANGED <<aaiApiKey, savedFiles, workers, nJobs, startOutcome, postedLog, appliedLog, call>>

------------------------------------------------------------------------------
(* The audio player (control thread) *)

Positions == 0..MaxPosition

\* pygame.mixer.music.load succeeds on a non-empty audio file
Playable(p) == FileInfo(p).size > 0 /\ ~_is_video_file(p)

\* _update_position leaving the position where it was at the natural end
UpdatePositionKeepsEnd(a) ==
    IF ~a.playing THEN a
    ELSE IF a.music.state # "playing"
    THEN [a EXCEPT !.playing = FALSE, !.paused = FALSE]
    ELSE [a EXCEPT !.position_var = a.music.elapsed, !.time_label = a.music.elapsed,
                   !.position_update_id = "pending", !.timers = @ + 1]

\* _update_position
_update_position(a) ==
    IF ~a.playing THEN a
    ELSE IF a.music.state # "playing"
    THEN [a EXCEPT !.playing = FALSE, !.paused = FALSE, !.position_var = 0, !.time_label = 0]
    ELSE [a EXCEPT !.position_var = a.music.elapsed, !.time_label = a.music.elapsed,
                   !.position_update_id = "pending", !.timers = @ + 1]

\* _start_position_updates that cancels the timer and starts none
StartNoRefresh(a) == _stop_position_updates(a)

\* _start_position_updates
_start_position_updates(a) == _update_position(_stop_position_updates(a))

\* _load_audio, on a file that pygame can load
_load_audio(a, path) ==
    [a EXCEPT !.music.loaded = path, !.duration = MaxPosition, !.loaded_audio_path = path,
              !.position_var = 0, !.time_label = 0]

\* _apply_speed: the mixer is re-initialised for the speed, the file loaded
\* and played from its start
_apply_speed(a, speed, audio_file) ==
    [a EXCEPT !.music = [MusicPlay(@, 0) EXCEPT !.freq = speed, !.loaded = audio_file],
              !.loaded_audio_path = audio_file]

\* _toggle_playback (the Play / Pause button)
TogglePlayback ==
    /\ phase = "running"
    /\ HAS_AUDIO
    /\ LET a == Dismissed
           audio_file == a.audio_path_var
       IN
       IF audio_file = NoPath
       THEN app' = [a EXCEPT !.message_box = <<"No File", "Please select an audio file first.">>]
       ELSE IF a.paused
       THEN app' = _start_position_updates(
                      [a EXCEPT !.music.state = IF @ = "paused" THEN "playing" ELSE @,
                                !.paused = FALSE, !.playing = TRUE])
       ELSE IF a.playing
       THEN app' = _stop_position_updates(
                      [a EXCEPT !.music.state = IF @ = "playing" THEN "paused" ELSE @,
                                !.paused = TRUE, !.playing = FALSE])
       ELSE IF a.loaded_audio_path # audio_file /\ ~Playable(audio_file)
       THEN app' = [a EXCEPT !.message_box = <<"Playback Error", "Cannot load audio file">>]
       ELSE LET loaded == IF a.loaded_audio_path # audio_file
                          THEN _load_audio(a, audio_file) ELSE a
                started == [loaded EXCEPT !.music = MusicPlay(@, 0)]
                atSpeed == IF loaded.speed_var # "1.0x"
                           THEN _apply_speed(started, loaded.speed_var, audio_file)
                           ELSE started
            IN app' = _start_position_updates(
                         [atSpeed EXCEPT !.playing = TRUE, !.paused = FALSE])
    /\ UNCHANGED <<aaiApiKey, phase, queue, tmpOnDisk, savedFiles, workers,
                   nJobs, startOutcome, postedLog, appliedLog, call>>

\* the Stop button: _stop_playback
StopPlayback ==
    /\ phase = "running"
    /\ HAS_AUDIO
    /\ app' = _stop_playback(Dismissed)
    /\ UNCHANGED <<aaiApiKey, phase, queue, tmpOnDisk, savedFiles, workers,
                   nJobs, startOutcome, postedLog, appliedLog, call>>

\* What pygame does with a position: play(start=pos) restarts the stream
\* there; where the format does not allow it, set_pos(pos) moves the stream;
\* where that fails too, the stream goes on as it was
SeekOutcomes == {"play_start", "set_pos", "unsupported"}

\* a seek bar whose movement is shown only by the next refresh
SeekShownLater(t) ==
    /\ phase = "running"
    /\ app.playing
    /\ app' = [Dismissed EXCEPT !.music = MusicPlay(@, t)]
    /\ UNCHANGED <<aaiApiKey, phase, queue, tmpOnDisk, savedFiles, workers,
                   nJobs, startOutcome, postedLog, appliedLog, call>>

\* the user moves the seek bar to t: the Scale writes t to _position_var and
\* calls _on_seek
Seek(t) ==
    /\ phase = "running"
    /\ \E outcome \in SeekOutcomes :
       LET a == [Dismissed EXCEPT !.position_var = t] IN
       IF ~HAS_AUDIO \/ ~a.playing
       THEN outcome = "unsupported" /\ app' = a
       ELSE app' = [a EXCEPT !.music = CASE outcome = "play_start" -> MusicPlay(@, t)
                                         [] outcome = "set_pos" -> [@ EXCEPT !.pos = t]
                                         [] OTHER -> @,
                             !.time_label = t]
    /\ UNCHANGED <<aaiApiKey, phase, queue, tmpOnDisk, savedFiles, workers,
                   nJobs, startOutcome, postedLog, appliedLog, call>>

\* the user picks a speed: the Combobox writes it to _speed_var and calls
\* _on_speed_change; setPosOk: pygame.mixer.music.set_pos(pos) succeeds
SpeedChange(speed) ==
    /\ phase = "running"
    /\ HAS_AUDIO
    /\ \E setPosOk \in BOOLEAN :
       LET a == [Dismissed EXCEPT !.speed_var = speed]
           audio_file == a.audio_path_var
       IN
       IF (~a.playing /\ ~a.paused) \/ ~(audio_file # NoPath /\ a.playing)
       THEN setPosOk /\ app' = a
       ELSE LET pos == a.position_var
                restarted == _apply_speed(a, speed, audio_file)
            IN app' = [restarted EXCEPT !.music.pos = IF setPosOk THEN pos ELSE @,
                                        !.playing = TRUE, !.paused = FALSE]
    /\ UNCHANGED <<aaiApiKey, phase, queue, tmpOnDisk, savedFiles, workers,
                   nJobs, startOutcome, postedLog, appliedLog, call>>

\* Tk runs a pending _update_position timer: the one _position_update_id
\* names, or one that the field no longer names
Tick ==
    /\ phase = "running"
    /\ app.timers > 0
    /\ \E named \in BOOLEAN :
       /\ named => app.position_update_id = "pending"
       /\ ~named => app.timers > (IF app.position_update_id = "pending" THEN 1 ELSE 0)
       /\ app' = _update_position(
                    [app EXCEPT !.timers = @ - 1,
                                !.position_update_id = IF named THEN "fired" ELSE @])
    /\ UNCHANGED <<aaiApiKey, phase, queue, tmpOnDisk, savedFiles, workers,
                   nJobs, startOutcome, postedLog, appliedLog, call>>

\* a refresh interval of the stream is played
MusicAdvance ==
    /\ phase = "running"
    /\ app.music.state = "playing"
    /\ app.music.pos < MaxPosition
    /\ app.music.elapsed < MaxPosition
    /\ app' = [app EXCEPT !.music.pos = @ + 1, !.music.elapsed = @ + 1]
    /\ UNCHANGED <<aaiApiKey, phase, queue, tmpOnDisk, savedFiles, workers,
                   nJobs, startOutcome, postedLog, appliedLog, call>>

\* the stream reaches its end: get_busy() is False from now on
MusicEnds ==
    /\ phase = "running"
    /\ app.music.state = "playing"
    /\ app.music.pos = MaxPosition
    /\ app' = [app EXCEPT !.music = MusicStop(@)]
    /\ UNCHANGED <<aaiApiKey, phase, queue, tmpOnDisk, savedFiles, workers,
                   nJobs, startOutcome, postedLog, appliedLog, call>>

------------------------------------------------------------------------------
(* Calls of the pure functions, on arguments drawn from bounded sets *)

jobVars == <<app, aaiApiKey, phase, queue, tmpOnDisk, savedFiles, workers,
             nJobs, startOutcome, postedLog, appliedLog>>

\* File names given to validate_audio_file: every supported extension, upper
\* and mixed case, unsupported ones, none, and the dot-file ".mp3"
ValidatePaths ==
    { [stem |-> "a", ext |-> e] :
        e \in SUPPORTED_FORMATS \cup {".MP3", ".Wav", ".TXT", ".txt", ".mp4", ""} }
    \cup { [stem |-> ".mp3", ext |-> ""] }

\* What the file system can say of a path: missing, a directory, or a regular
\* file; readable or not; empty or not
ValidateFiles ==
    { [path |-> p, exists |-> FALSE, isfile |-> FALSE, readable |-> FALSE, size |-> 0] :
        p \in ValidatePaths }
    \cup { [path |-> p, exists |-> TRUE, isfile |-> i, readable |-> r, size |-> n] :
             p \in ValidatePaths, i \in BOOLEAN, r \in BOOLEAN, n \in {0, 3} }

ValidateCalls ==
    { [fn |-> "validate_audio_file", file |-> f, returned |-> FALSE, result |-> ""] :
        f \in ValidateFiles }

CallValidate ==
    /\ call.fn = "validate_audio_file"
    /\ ~call.returned
    /\ call' = [call EXCEPT !.returned = TRUE, !.result = ValidateFile(call.file)]
    /\ UNCHANGED jobVars

\* Utterance lists given to the renderer: up to MaxUtterances utterances, the
\* i-th with text TextOf(i), spoken by generic one-letter labels, by a generic
\* label of two letters and by a one-letter name
RenderSpeakers == {"A", "B", "S1"}

TextOf(i) == CASE i = 1 -> "hi" [] i = 2 -> "yo" [] OTHER -> "ok"

RenderResults ==
    UNION { { [i \in 1..n |-> <<sp[i], TextOf(i)>>] : sp \in [1..n -> RenderSpeakers] } :
            n \in 0..MaxUtterances }

\* Rename maps: no field, or fields for "A" and "B" holding what the user typed
RenameMaps ==
    { <<>> } \cup
    { << [label |-> "A", value |-> va], [label |-> "B", value |-> vb] >> :
        va \in {"", " ", " Alice"}, vb \in {"", "Alice"} }

RenderCalls ==
    { [fn |-> "_render_transcript", results |-> r, nameVars |-> m, identified |-> d,
       returned |-> FALSE, result |-> <<>>] :
        r \in RenderResults, m \in RenameMaps, d \in BOOLEAN }

DisplayCalls ==
    { [fn |-> "_get_speaker_display", label |-> l, nameVars |-> m, identified |-> d,
       returned |-> FALSE, result |-> ""] :
        l \in RenderSpeakers \cup {"Alice"}, m \in RenameMaps, d \in BOOLEAN }

CallRender ==
    /\ call.fn = "_render_transcript"
    /\ ~call.returned
    /\ call' = [call EXCEPT !.returned = TRUE,
                            !.result = _render_transcript(call.results, call.nameVars, call.identified)]
    /\ UNCHANGED jobVars

CallDisplay ==
    /\ call.fn = "_get_speaker_display"
    /\ ~call.returned
    /\ call' = [call EXCEPT !.returned = TRUE,
                            !.result = _get_speaker_display(call.nameVars, call.label, call.identified)]
    /\ UNCHANGED jobVars

\* The labels of a meeting of seven, in the order the speakers come in
MeetingLabels == <<"A", "B", "C", "D", "E", "F", "G">>

\* Results of n utterances in which the first m speakers of the meeting take
\* turns
FieldResults ==
    { [i \in 1..n |-> <<MeetingLabels[((i - 1) % m) + 1], "hi">>] :
        n \in 0..(Len(MeetingLabels) + 1), m \in 1..Len(MeetingLabels) }

FieldCalls ==
    { [fn |-> "_build_rename_fields", results |-> r, returned |-> FALSE, result |-> <<>>] :
        r \in FieldResults }

CallBuildFields ==
    /\ call.fn = "_build_rename_fields"
    /\ ~call.returned
    /\ call' = [call EXCEPT !.returned = TRUE, !.result = _build_rename_fields(call.results)]
    /\ UNCHANGED jobVars

PureInit == JobInit /\ call \in ValidateCalls \cup RenderCalls \cup DisplayCalls \cup FieldCalls

PureNext == CallValidate \/ CallRender \/ CallDisplay \/ CallBuildFields

PureSpec == PureInit /\ [][PureNext]_vars

------------------------------------------------------------------------------
(* The command-line program transcribeone.py: one run of main() *)

\* os.getenv("ASSEMBLYAI_API_KEY"): unset (None), set to "", set to a key
CliEnvs ==
    { [set |-> FALSE, value |-> ""], [set |-> TRUE, value |-> ""],
      [set |-> TRUE, value |-> "key "] }

\* sys.argv[1:], each argument with what the file system says of it
CliArgs ==
    { <<>> } \cup { <<f>> : f \in ValidateFiles }
    \cup { <<f, f>> : f \in SourceFiles }

\* main with the key loaded before the arguments are parsed
MainKeyFirst == <<"load_api_key", "parse_args", "transcribe_audio">>

\* main: the calls it makes, in order
MainOrder == <<"parse_args", "load_api_key", "transcribe_audio">>

CliCalls ==
    { [fn |-> "main", pc |-> 1, argv |-> a, env |-> e, audio_file |-> NoPath,
       trace |-> <<>>, stdout |-> <<>>, stderr |-> "", exit |-> "running"] :
        a \in CliArgs, e \in CliEnvs }

\* main is about to call fn
CliAt(fn) ==
    /\ call.fn = "main"
    /\ call.exit = "running"
    /\ call.pc <= Len(MainOrder)
    /\ MainOrder[call.pc] = fn

\* print(..., file=sys.stderr); sys.exit(1)
CliFail(c, message) == [c EXCEPT !.stderr = message, !.exit = "1"]

\* parse_args
parse_args ==
    /\ CliAt("parse_args")
    /\ LET c == [call EXCEPT !.trace = Append(@, "parse_args")]
       IN call' =
            IF Len(call.argv) # 1
            THEN CliFail(c, "Usage: transcribeone.py <audio_file> > output.txt")
            ELSE IF ValidateFile(call.argv[1]) # "ok"
            THEN CliFail(c, "Error: " \o ValidateFile(call.argv[1]))
            ELSE [c EXCEPT !.audio_file = call.argv[1].path, !.pc = @ + 1]
    /\ UNCHANGED jobVars

\* load_api_key
load_api_key ==
    /\ CliAt("load_api_key")
    /\ LET c == [call EXCEPT !.trace = Append(@, "load_api_key")]
           api_key == call.env
       IN IF ~api_key.set \/ api_key.value = ""
          THEN /\ call' = CliFail(c, "Error: ASSEMBLYAI_API_KEY environment variable is not set.")
               /\ UNCHANGED aaiApiKey
          ELSE /\ call' = [c EXCEPT !.pc = @ + 1]
               /\ aaiApiKey' = api_key.value
    /\ UNCHANGED <<app, phase, queue, tmpOnDisk, savedFiles, workers,
                   nJobs, startOutcome, postedLog, appliedLog>>

\* print(f"Speaker {utterance.speaker}: {utterance.text}") for each utterance
SpeakerLines(utterances) ==
    [i \in 1..Len(utterances) |-> "Speaker " \o utterances[i][1] \o ": " \o utterances[i][2]]

\* transcribe_audio; an exception of the service reaches the handler of the
\* __main__ block, which prints it and exits with 1
transcribe_audio ==
    /\ CliAt("transcribe_audio")
    /\ \E outcome \in TranscribeOutcomes :
         LET c == [call EXCEPT !.trace = Append(@, "transcribe_audio")]
         IN call' =
              CASE outcome.kind = "raise" -> CliFail(c, "Error: service unreachable")
                [] outcome.kind = "error" -> CliFail(c, "Error: Transcription failed: bad audio")
                [] outcome.utterances = <<>> ->
                     [c EXCEPT !.stdout = <<"No speech detected.">>, !.pc = @ + 1]
                [] OTHER ->
                     [c EXCEPT !.stdout = SpeakerLines(outcome.utterances), !.pc = @ + 1]
    /\ UNCHANGED jobVars

\* main returns and the interpreter exits with 0
MainReturns ==
    /\ call.fn = "main"
    /\ call.exit = "running"
    /\ call.pc > Len(MainOrder)
    /\ call' = [call EXCEPT !.exit = "0"]
    /\ UNCHANGED jobVars

CliInit == JobInit /\ call \in CliCalls

CliNext == parse_args \/ load_api_key \/ transcribe_audio \/ MainReturns

CliSpec == CliInit /\ [][CliNext]_vars

------------------------------------------------------------------------------
(* The rename panel across jobs: a user with a stored API key works on one
   audio file, fills in a rename field after a job, and may type speaker names
   before the next job, which then asks for identification. *)

TalkPath == [stem |-> "talk", ext |-> ".MP3"]

\* browsing to talk.MP3
SelectTalk == SetAudioPath(TalkPath)

\* typing "Alice, Bob" into the speaker-names entry
TypeSpeakerNames == SetSpeakerNames(<<"Alice", " Bob">>)

\* typing into the rename field of speaker A
RenameSpeakerA == \E value \in RenameValues : SetRenameField("A", value)

RelabelNext ==
    \/ SelectTalk
    \/ TypeSpeakerNames
    \/ StartTranscription
    \/ \E j \in JobIds : WorkerCleanup(j)
    \/ \E j \in JobIds : WorkerTranscribe(j)
    \/ \E j \in JobIds : WorkerPostIdentifying(j)
    \/ \E j \in JobIds : WorkerIdentify(j)
    \/ \E j \in JobIds : WorkerPostComplete(j)
    \/ \E j \in JobIds : WorkerPostError(j)
    \/ ApplyStatus
    \/ OnTranscriptionComplete
    \/ OnTranscriptionError
    \/ RenameSpeakerA
    \/ ApplyNames

RelabelInit == JobInit /\ app.api_key_var # "" /\ call = NoCall

RelabelSpec == RelabelInit /\ [][RelabelNext]_vars

------------------------------------------------------------------------------
(* Jobs on video files: a user with a stored API key picks video files, good
   and poor ones, and starts jobs. *)

VideoPaths ==
    { f.path : f \in PoorVideoFiles \cup WebmFiles } \cup { p \in Paths : _is_video_file(p) }

SelectVideo == \E p \in VideoPaths : SetAudioPath(p)

VideoNext ==
    \/ SelectVideo
    \/ StartTranscription
    \/ \E j \in JobIds : WorkerCleanup(j)
    \/ \E j \in JobIds : WorkerConvert(j)
    \/ \E j \in JobIds : WorkerSetTmp(j)
    \/ \E j \in JobIds : WorkerPostUploading(j)
    \/ \E j \in JobIds : WorkerTranscribe(j)
    \/ \E j \in JobIds : WorkerPostComplete(j)
    \/ \E j \in JobIds : WorkerPostError(j)
    \/ ApplyStatus
    \/ OnTranscriptionComplete
    \/ OnTranscriptionError

VideoInit == JobInit /\ app.api_key_var # "" /\ call = NoCall

VideoSpec == VideoInit /\ [][VideoNext]_vars

------------------------------------------------------------------------------
(* Job and player together: a user with a stored API key drives the player
   on talk.MP3 (Play, Pause, Stop, seek, speed, with the refresh timer
   running) while up to MaxMixedJobs jobs on it run.  The stream is moved by
   the user's seeks only. *)

MaxMixedJobs == 1

\* _start_transcription, while fewer than MaxMixedJobs jobs have been started
StartMixedJob == StartTranscription /\ nJobs' <= MaxMixedJobs

MixedNext ==
    \/ SelectTalk
    \/ StartMixedJob
    \/ \E j \in JobIds : WorkerCleanup(j)
    \/ \E j \in JobIds : WorkerTranscribe(j)
    \/ \E j \in JobIds : WorkerPostComplete(j)
    \/ \E j \in JobIds : WorkerPostError(j)
    \/ OnTranscriptionComplete
    \/ OnTranscriptionError
    \/ TogglePlayback
    \/ StopPlayback
    \/ \E t \in Positions : Seek(t)
    \/ \E speed \in SPEED_OPTIONS : SpeedChange(speed)
    \/ Tick

MixedInit == JobInit /\ app.api_key_var # "" /\ call = NoCall

MixedSpec == MixedInit /\ [][MixedNext]_vars

------------------------------------------------------------------------------
(* Specification *)

Next ==
    \/ \E k \in ApiKeys : SetApiKey(k)
    \/ \E entry \in NameEntries : SetSpeakerNames(entry)
    \/ \E p \in Paths : SetAudioPath(p)
    \/ StartTranscription
    \/ \E j \in JobIds : WorkerCleanup(j)
    \/ \E j \in JobIds : WorkerConvert(j)
    \/ \E j \in JobIds : WorkerSetTmp(j)
    \/ \E j \in JobIds : WorkerPostUploading(j)
    \/ \E j \in JobIds : WorkerTranscribe(j)
    \/ \E j \in JobIds : WorkerPostIdentifying(j)
    \/ \E j \in JobIds : WorkerIdentify(j)
    \/ \E j \in JobIds : WorkerPostComplete(j)
    \/ \E j \in JobIds : WorkerPostError(j)
    \/ ApplyStatus
    \/ OnTranscriptionComplete
    \/ OnTranscriptionError
    \/ OnClose

Spec == Init /\ [][Next]_vars

\* The audio player: the user selects files and drives the player; no job is
\* started.
PlaybackNext ==
    \/ \E p \in Paths : SetAudioPath(p)
    \/ TogglePlayback
    \/ StopPlayback
    \/ \E t \in Positions : Seek(t)
    \/ \E speed \in SPEED_OPTIONS : SpeedChange(speed)
    \/ Tick
    \/ MusicAdvance
    \/ MusicEnds
    \/ OnClose

PlaybackSpec == Init /\ [][PlaybackNext]_vars

\* The rename panel.  Every field the user fills in multiplies the states of
\* the jobs that follow, so this specification follows MaxRenameJobs jobs of a
\* user who has a stored API key and leaves the speaker-names entry empty
\* (no identification is requested, every result carries generic labels).
RenameInit == JobInit /\ app.api_key_var # "" /\ call = NoCall

\* _start_transcription, while fewer than MaxRenameJobs jobs have been started
StartRenameJob == StartTranscription /\ nJobs' <= MaxRenameJobs

RenameNext ==
    \/ \E p \in Paths : SetAudioPath(p)
    \/ StartRenameJob
    \/ \E j \in JobIds : WorkerCleanup(j)
    \/ \E j \in JobIds : WorkerConvert(j)
    \/ \E j \in JobIds : WorkerSetTmp(j)
    \/ \E j \in JobIds : WorkerPostUploading(j)
    \/ \E j \in JobIds : WorkerTranscribe(j)
    \/ \E j \in JobIds : WorkerPostComplete(j)
    \/ \E j \in JobIds : WorkerPostError(j)
    \/ ApplyStatus
    \/ OnTranscriptionComplete
    \/ OnTranscriptionError
    \/ \E label \in {"A", "B"}, value \in RenameValues : SetRenameField(label, value)
    \/ ApplyNames
    \/ OnClose

RenameSpec == RenameInit /\ [][RenameNext]_vars

------------------------------------------------------------------------------
(* Properties of the transcription job *)

Terminal == {"complete", "error"}

IsPrefix(a, b) == Len(a) <= Len(b) /\ SubSeq(b, 1, Len(a)) = a

\* the number of progress callbacks of job j among the first n entries of a log
RECURSIVE ProgressCount(_, _, _)
ProgressCount(log, j, n) ==
    IF n = 0 THEN 0
    ELSE ProgressCount(log, j, n - 1) + (IF log[n] = <<j, "status">> THEN 1 ELSE 0)

LiveWorkers == { j \in JobIds : Live(j) }

\* The job's state that a start request must leave alone
JobState == <<app, aaiApiKey, queue, tmpOnDisk, savedFiles, workers, nJobs, postedLog, appliedLog>>

\* C1: at most one worker thread is running at any time, and a call of
\* _start_transcription made while a job is active changes nothing of the job:
\* no worker is created, the flag, the controls, the status and the running
\* worker's arguments stay as they are.
C1_SingleJobInFlight ==
    [][ /\ Cardinality(LiveWorkers') <= 1
        /\ (StartTranscription /\ app.transcribing) => UNCHANGED JobState ]_vars

\* a start request was turned away while a worker was running
C1_Witness ==
    /\ startOutcome = "active"
    /\ app.transcribing
    /\ \E j \in JobIds : Live(j) /\ workers[j].pc = "transcribe"

\* C2: a worker thread that has ended has posted exactly one terminal
\* callback (completion or error).
C2_ExactlyOneTerminal ==
    \A j \in JobIds :
        workers[j].pc \in {"returned", "uncaught"} => workers[j].terminals = 1

\* C3: no exception leaves _transcription_worker: whatever a stage raises, and
\* also when the window was closed during the job, the worker ends by
\* returning after it has posted the error callback.
C3_NothingEscapesWorker ==
    \A j \in JobIds : workers[j].pc # "uncaught"

\* C4: the control thread runs the callbacks in the order they were posted,
\* and when it runs a job's terminal callback it has already run every
\* progress callback that job posted.
C4_ProgressBeforeTerminal ==
    /\ IsPrefix(appliedLog, postedLog)
    /\ \A i \in 1..Len(appliedLog) :
         appliedLog[i][2] \in Terminal =>
            ProgressCount(appliedLog, appliedLog[i][1], i - 1)
               = ProgressCount(postedLog, appliedLog[i][1], Len(postedLog))

\* both progress callbacks of a video job with speaker names ran, then its
\* completion callback
C4_Witness ==
    /\ Len(appliedLog) = 3
    /\ appliedLog[1][2] = "status"
    /\ appliedLog[2][2] = "status"
    /\ appliedLog[3][2] = "complete"

\* C5: every callback the control thread has run since the last job started
\* was posted by that job: none comes from an earlier job.
C5_NoStaleCallback ==
    \A i \in 1..Len(appliedLog) : appliedLog[i][1] = nJobs

\* the second job's progress and terminal callbacks have run
C5_Witness ==
    /\ nJobs = 2
    /\ Len(appliedLog) >= 2
    /\ appliedLog[Len(appliedLog)][2] \in Terminal

\* what a worker does after run_transcription has returned
AfterTranscribe == {"post_identifying", "identify", "post_complete"}

\* C6: a step of the worker thread leaves the app object alone (it only posts
\* callbacks); in particular it does not write _tmp_audio_file.
C6_WorkerLeavesAppAlone ==
    [][(\E j \in JobIds : workers[j].pc # "idle" /\ workers'[j] # workers[j]) => app' = app]_vars

\* C7: a job started without speaker names, or whose transcription returned
\* no utterances, never calls identify_speakers: from run_transcription it
\* goes straight to posting the completion callback, with the raw results
\* and identified = false.
C7_SkipIdentification ==
    [][\A j \in JobIds :
         /\ (workers'[j].pc \in AfterTranscribe
               /\ (workers'[j].speaker_names = <<>> \/ workers'[j].raw = <<>>))
            => /\ workers'[j].pc = "post_complete"
               /\ workers'[j].idCalls = 0
               /\ workers'[j].results = workers'[j].raw
               /\ ~workers'[j].speakers_identified
         /\ (workers[j].pc = "post_complete" /\ workers[j].idCalls = 0
               /\ phase = "running" /\ workers'[j] # workers[j])
            => /\ queue' = Append(queue, CompleteEvent(j, workers[j].audio_file,
                                                       workers[j].raw, FALSE))
               /\ workers'[j].pc = "returned"]_vars

\* the speaker-names entry " ," parses to no names: the job has non-empty raw
\* results and is about to post them
C7_Witness ==
    \E j \in JobIds :
        /\ workers[j].pc = "post_complete"
        /\ workers[j].speaker_names = <<>>
        /\ workers[j].raw # <<>>
        /\ workers[j].trCalls = 1
        /\ EntryNonEmpty(app.speaker_names_var)

\* C8: a job whose identification call failed (transport error, undecodable
\* body, missing fields) does not take the error path.
C8_IdentifyFailureNotFatal ==
    \A j \in JobIds : workers[j].idFailed => workers[j].pc # "post_error"

\* the job is Done: the last callback run is a completion callback
JobDone == appliedLog # <<>> /\ appliedLog[Len(appliedLog)][2] = "complete"

\* C9: when the job is Done, its converted-audio file is gone from the disk
\* and no temp path is recorded.
C9_DoneImpliesTempReleased ==
    JobDone => (tmpOnDisk = {} /\ app.tmp_audio_file = NoPath)

\* every job started has finished and its terminal callback has run
AllFinished ==
    /\ phase = "running"
    /\ ~app.transcribing
    /\ queue = <<>>
    /\ LiveWorkers = {}

\* C10: once a job and its successor have both finished, no converted-audio
\* file is left on disk.
C10_NoTempFilesLeft ==
    (nJobs >= 2 /\ AllFinished) => tmpOnDisk = {}

------------------------------------------------------------------------------
(* Properties of the pure functions *)

\* C11: validate_audio_file reports the first violated condition in the order
\* exists, regular file, readable, size > 0, supported extension (compared
\* case-insensitively), and accepts exactly when all five hold; a zero-byte
\* file is reported empty whatever its extension.
C11_ValidateFirstViolation ==
    (call.fn = "validate_audio_file" /\ call.returned) =>
        LET f == call.file
            supported == EndsWithSupported(f.path)
        IN
        /\ call.result = "ok" <=>
              (f.exists /\ f.isfile /\ f.readable /\ f.size > 0 /\ supported)
        /\ ~f.exists => call.result = "File not found"
        /\ (f.exists /\ ~f.isfile) => call.result = "Not a file"
        /\ (f.exists /\ f.isfile /\ ~f.readable) => call.result = "Permission denied"
        /\ (f.exists /\ f.isfile /\ f.readable /\ f.size = 0) => call.result = "File is empty"
        /\ (f.exists /\ f.isfile /\ f.readable /\ f.size > 0 /\ ~supported)
              => call.result = "Unsupported audio format"

\* a readable zero-byte file with an unsupported extension was reported empty
C11_Witness ==
    /\ call.fn = "validate_audio_file"
    /\ call.returned
    /\ call.file.path.ext = ".txt"
    /\ call.file.isfile /\ call.file.readable /\ call.file.size = 0
    /\ call.result = "File is empty"

\* C12: the rendered transcript has one line "<display label>: <text>" per
\* utterance, in input order, with exactly one blank line between two
\* consecutive utterances whose speakers differ and none between two of the
\* same speaker; an empty utterance list renders to "No speech detected.",
\* never to an empty text.
C12_RenderLines ==
    (call.fn = "_render_transcript" /\ call.returned) =>
        LET r == call.results
            out == call.result
            Changed(i) == i > 1 /\ r[i][1] # r[i - 1][1]
            \* the line of utterance i: one line per utterance before it and
            \* one per speaker change up to it
            Pos(i) == i + Cardinality({ k \in 2..i : Changed(k) })
            Display(i) == _get_speaker_display(call.nameVars, r[i][1], call.identified)
        IN
        /\ out # <<>> /\ out # <<"">>
        /\ r = <<>> => out = <<"No speech detected.">>
        /\ r # <<>> =>
             /\ Len(out) = Pos(Len(r))
             /\ \A i \in 1..Len(r) :
                  /\ out[Pos(i)] = Display(i) \o ": " \o r[i][2]
                  /\ Changed(i) => out[Pos(i) - 1] = ""

\* three utterances were rendered, the first two by one speaker and the third
\* by another: four lines, the third of them blank
C12_Witness ==
    /\ call.fn = "_render_transcript"
    /\ call.returned
    /\ Len(call.results) = 3
    /\ call.results[1][1] = call.results[2][1]
    /\ call.results[2][1] # call.results[3][1]
    /\ Len(call.result) = 4
    /\ call.result[3] = ""

\* C13: the display label of an utterance is the user's non-empty override
\* for its original label if there is one; otherwise the label unchanged when
\* the results were identified; otherwise "SPEAKER <label>", whatever the
\* length of the label.
C13_DisplayLabel ==
    (call.fn = "_get_speaker_display" /\ call.returned) =>
        LET override == IF HasNameVar(call.nameVars, call.label)
                        THEN Strip(NameVar(call.nameVars, call.label))
                        ELSE ""
        IN call.result = IF override # "" THEN override
                         ELSE IF call.identified THEN call.label
                         ELSE "SPEAKER " \o call.label

------------------------------------------------------------------------------
(* Properties of the rename panel and of the auto-save file *)

\* the rename map holds no override: every field is empty or blank
NoOverride(nameVars) == \A i \in 1..Len(nameVars) : Strip(nameVars[i].value) = ""

\* the label shown by the job's original render
OriginalDisplay(label) == _format_speaker(label, FALSE)

\* C14: Apply Names makes no network call (no worker is created or moved, no
\* callback is posted), leaves the raw results and the rename map as they
\* are, and shows the transcript determined by the raw results and the rename
\* map alone: each utterance under its speaker's override, or, without one,
\* under the label of the job's original render; with every override cleared
\* it shows the original render again.  The original render is what the
\* completion handler showed when it opened the rename panel.
C14_ApplyNamesPure ==
    [][ /\ (OnTranscriptionComplete /\ app'.rename_shown) =>
              app'.result_text = _render_transcript(app'.raw_results, <<>>, FALSE)
        /\ ApplyNames =>
              LET raw == app.raw_results
                  map == app.speaker_name_vars
                  original == _render_transcript(raw, <<>>, FALSE)
                  Shown(i) ==
                      IF HasNameVar(map, raw[i][1]) /\ Strip(NameVar(map, raw[i][1])) # ""
                      THEN Strip(NameVar(map, raw[i][1]))
                      ELSE OriginalDisplay(raw[i][1])
                  expected == [k \in 1..Len(original) |->
                                 IF original[k] = "" THEN ""
                                 ELSE LET i == Cardinality({ n \in 1..k : original[n] # "" })
                                      IN Shown(i) \o ": " \o raw[i][2]]
              IN
              /\ UNCHANGED <<workers, queue, aaiApiKey, nJobs, postedLog>>
              /\ app'.raw_results = raw
              /\ app'.speaker_name_vars = map
              /\ raw # <<>>
              /\ app'.result_text = expected
              /\ NoOverride(map) => app'.result_text = original ]_vars

\* Apply Names ran with an override for speaker A and none for speaker B
C14_Witness ==
    /\ app.status_var = "Names applied and saved"
    /\ app.raw_results = << <<"A", "hi">>, <<"B", "yo">> >>
    /\ NameVar(app.speaker_name_vars, "A") = "Zoe"
    /\ NameVar(app.speaker_name_vars, "B") = ""
    /\ app.result_text = <<"Zoe: hi", "", "SPEAKER B: yo">>

\* C15: after the completion handler and after Apply Names, when the write
\* of _auto_save succeeds, the file "<source stem>-transcript.txt" of the
\* job's source file holds exactly the transcript now displayed followed by a
\* newline, whatever an earlier render had written there.
C15_AutoSaveMatchesDisplay ==
    [][ (OnTranscriptionCompleteSaving(TRUE) \/ ApplyNamesSaving(TRUE)) =>
          LET source == app'.current_audio_file
              path == [stem |-> source.stem \o "-transcript", ext |-> ".txt"]
          IN
          /\ source \in Paths
          /\ OnTranscriptionCompleteSaving(TRUE) => source = NextCallback(queue).audio_file
          /\ ApplyNamesSaving(TRUE) => source = app.current_audio_file
          /\ path \in DOMAIN savedFiles'
          /\ savedFiles'[path] = Append(app'.result_text, "") ]_vars

\* the transcript of a video source, renamed and applied, replaced the one
\* the completion handler had saved
C15_Witness ==
    /\ app.status_var = "Names applied and saved"
    /\ app.current_audio_file = [stem |-> "clip", ext |-> ".mp4"]
    /\ app.result_text = <<"Zoe: hi", "", "SPEAKER B: yo">>
    /\ [stem |-> "clip-transcript", ext |-> ".txt"] \in DOMAIN savedFiles
    /\ savedFiles[[stem |-> "clip-transcript", ext |-> ".txt"]]
         = <<"Zoe: hi", "", "SPEAKER B: yo", "">>

\* C16: when the write of _auto_save fails, the job still ends Done
\* (controls enabled, transcript displayed) and the status left by the
\* completion handler, or by Apply Names, says that the save failed.
C16_SaveFailureReported ==
    [][ (OnTranscriptionCompleteSaving(FALSE) \/ ApplyNamesSaving(FALSE)) =>
          /\ ~app'.ui_busy
          /\ ~app'.transcribing
          /\ app'.result_text # <<>>
          /\ app'.status_var = "Done (save failed)" ]_vars

------------------------------------------------------------------------------
(* Properties of the audio player *)

\* the transport state the flags _playing and _paused stand for
Transport == IF app.playing THEN "Playing" ELSE IF app.paused THEN "Paused" ELSE "Stopped"

\* C17: whenever the transport is Stopped the position (the seek bar's
\* variable) is 0, whatever the user did before, a seek while Stopped
\* included.
C17_StoppedAtZero == Transport = "Stopped" => app.position_var = 0

\* C18: whenever the transport is Playing a file is loaded, it is the
\* selected file, and an _update_position timer is pending.
C18_PlayingHasFileAndRefresh ==
    Transport = "Playing" =>
        /\ app.loaded_audio_path # NoPath
        /\ app.loaded_audio_path = app.audio_path_var
        /\ app.timers > 0

\* playing at 1.5x after a refresh has shown a position past the start
C18_Witness ==
    /\ Transport = "Playing"
    /\ app.music.freq = "1.5x"
    /\ app.position_var > 0
    /\ app.position_update_id = "pending"

\* C19: the Stop button leaves the transport Stopped, the position 0 and no
\* refresh timer pending, from Stopped, Playing and Paused alike.
C19_StopResets ==
    [][ StopPlayback =>
          /\ ~app'.playing /\ ~app'.paused
          /\ app'.position_var = 0
          /\ app'.timers = 0
          /\ app'.position_update_id = "none" ]_vars

\* stopped at position 0 with a file still loaded, the timer id cleared and
\* no timer pending, as Stop leaves the player after Play
C19_Witness ==
    /\ Transport = "Stopped"
    /\ app.loaded_audio_path # NoPath
    /\ app.position_update_id = "none"
    /\ app.position_var = 0
    /\ app.timers = 0

\* C20: moving the seek bar to t while Playing leaves the transport Playing
\* and shows position t (seek bar and time label) in the same handler, before
\* any refresh runs.
C20_SeekShowsPosition ==
    [][ \A t \in Positions :
          (Seek(t) /\ app.playing) =>
              /\ app'.playing /\ ~app'.paused
              /\ app'.position_var = t
              /\ app'.time_label = t
              /\ app'.timers = app.timers ]_vars

\* playing, the stream restarted at the end position by a seek and shown there
C20_Witness ==
    /\ Transport = "Playing"
    /\ app.position_var = MaxPosition
    /\ app.time_label = MaxPosition
    /\ app.music.pos = MaxPosition
    /\ app.music.elapsed = 0

------------------------------------------------------------------------------
(* Properties of the job's controls, stages and events *)

\* the last job started has not had its terminal callback run yet
JobActive ==
    /\ nJobs > 0
    /\ \A i \in 1..Len(appliedLog) : appliedLog[i][2] \notin Terminal

\* C23: while the window is open the Transcribe button is disabled exactly
\* while a job is active, that is from the accepted start request until the
\* job's terminal callback has run, and the job-active flag says the same; a
\* start request whose setup raised leaves the flag false and the button
\* enabled.
C23_StartControlFollowsJob ==
    phase = "running" =>
        /\ app.ui_busy <=> JobActive
        /\ app.transcribing <=> JobActive
        /\ startOutcome = "raised" => ~app.transcribing /\ ~app.ui_busy

\* the button is disabled again for a second job, whose first progress
\* callback has run
C23_Witness ==
    /\ phase = "running"
    /\ nJobs = 2
    /\ app.ui_busy
    /\ Len(appliedLog) >= 1

\* a start request raised after the UI had been locked, after an earlier job
C23_WitnessRaised ==
    /\ phase = "running"
    /\ startOutcome = "raised"
    /\ nJobs = 1
    /\ app.message_box = <<"Error", "Failed to start transcription">>

\* The stage of a job, from where its worker is and from what it has posted:
\* the stage is Failed from the moment a statement of the worker has raised,
\* and Done from the moment the completion callback is posted.
StageOf(w, j, log) ==
    CASE w.pc = "idle" -> "Idle"
      [] w.pc \in {"convert", "set_tmp", "post_uploading"} -> "Converting"
      [] w.pc = "cleanup" -> IF w.is_video THEN "Converting" ELSE "Transcribing"
      [] w.pc = "transcribe" -> "Transcribing"
      [] w.pc \in {"post_identifying", "identify"} -> "Identifying"
      [] w.pc = "post_complete" -> IF w.idCalls > 0 THEN "Identifying" ELSE "Transcribing"
      [] w.pc = "returned" ->
           IF \E i \in 1..Len(log) : log[i] = <<j, "complete">> THEN "Done" ELSE "Failed"
      [] OTHER -> "Failed"

StageSteps ==
    { <<"Idle", "Converting">>, <<"Idle", "Transcribing">>,
      <<"Converting", "Transcribing">>, <<"Converting", "Failed">>,
      <<"Transcribing", "Identifying">>, <<"Transcribing", "Done">>, <<"Transcribing", "Failed">>,
      <<"Identifying", "Done">>, <<"Identifying", "Failed">> }

\* C24: a job goes through Converting, Transcribing, Identifying, Done in
\* that order, or from one of the first three to Failed, and leaves neither
\* Done nor Failed; it starts in Converting iff the source is a video; the
\* transcription of a video is called on the file the conversion returned;
\* Identifying follows a transcription iff names were given and the
\* transcription returned utterances.
C24_StageOrder ==
    [][ \A j \in JobIds :
          LET w == workers[j]
              v == workers'[j]
              s == StageOf(w, j, postedLog)
              t == StageOf(v, j, postedLog')
          IN v # w =>
              /\ s = t \/ <<s, t>> \in StageSteps
              /\ s = "Idle" => (t = "Converting" <=> _is_video_file(v.audio_file))
              /\ (w.pc = "transcribe" /\ w.is_video) =>
                    v.submitted = TmpAudioPath(w.audio_file)
              /\ (w.pc = "transcribe" /\ ~w.is_video) => v.submitted = w.audio_file
              /\ (w.pc = "transcribe" /\ t # "Failed") =>
                    ((t = "Identifying") <=> (w.speaker_names # <<>> /\ v.raw # <<>>))
              /\ t = "Identifying" => s \in {"Transcribing", "Identifying"} ]_vars

\* the job of a video has been converted, transcribed and identified, and is
\* about to post its completion
C24_Witness ==
    \E j \in JobIds :
        /\ workers[j].pc = "post_complete"
        /\ workers[j].is_video
        /\ workers[j].submitted = TmpAudioPath(workers[j].audio_file)
        /\ workers[j].idCalls = 1
        /\ workers[j].speakers_identified

NotInstalledMessage == "ffmpeg is not installed. Install it with: brew install ffmpeg"

ConversionFailedPrefix == "ffmpeg conversion failed:\n"

\* m is the message of a failed conversion
IsConversionError(m) ==
    \/ m = NotInstalledMessage
    \/ Len(m) >= Len(ConversionFailedPrefix)
         /\ SubSeq(m, 1, Len(ConversionFailedPrefix)) = ConversionFailedPrefix

\* m carries, after the prefix, a leading part of stderr no longer than the limit
CarriesExcerpt(m, stderr) ==
    LET n == Len(m) - Len(ConversionFailedPrefix)
    IN /\ 0 <= n /\ n <= DiagnosticLimit /\ n <= Len(stderr)
       /\ m = ConversionFailedPrefix \o SubSeq(stderr, 1, n)

\* C25: when ffmpeg is missing or returns non-zero, the worker raises with a
\* message that carries at most the first 500 characters of ffmpeg's stderr
\* (none when ffmpeg is missing); it has not called the transcription service
\* and no temp-audio path is recorded; the error callback it posts carries
\* that message, and _on_transcription_error shows it with the status Error.
C25_ConversionFailure ==
    [][ \A j \in JobIds :
          /\ \A outcome \in ConvertOutcomes :
               (WorkerConvertWith(j, outcome) /\ (~outcome.found \/ outcome.returncode # 0)) =>
                  /\ workers'[j].pc = "post_error"
                  /\ IF outcome.found
                     THEN CarriesExcerpt(workers'[j].exc, outcome.stderr)
                     ELSE workers'[j].exc = NotInstalledMessage
                  /\ workers'[j].trCalls = 0
                  /\ workers'[j].actual_audio = workers[j].audio_file
                  /\ app'.tmp_audio_file = NoPath
                  /\ tmpOnDisk' = tmpOnDisk
          /\ (WorkerPostError(j) /\ IsConversionError(workers[j].exc)) =>
                  /\ workers[j].trCalls = 0
                  /\ app'.tmp_audio_file = NoPath
                  /\ phase = "running" =>
                        /\ queue' = Append(queue, ErrorEvent(j, workers[j].exc))
                        /\ workers'[j].pc = "returned"
          /\ (OnTranscriptionError /\ NextCallback(queue).job = j
                /\ IsConversionError(NextCallback(queue).message)) =>
                  /\ app'.status_var = "Error"
                  /\ app'.message_box = <<"Transcription Error", NextCallback(queue).message>>
                  /\ Len(app'.message_box[2]) <= Len(ConversionFailedPrefix) + DiagnosticLimit
                  /\ ~app'.transcribing
                  /\ app'.tmp_audio_file = NoPath ]_vars

\* the error box shows the first 500 characters of a longer diagnostic
C25_Witness ==
    /\ app.message_box = <<"Transcription Error", ConversionFailedPrefix \o Repeat("e", DiagnosticLimit)>>
    /\ app.status_var = "Error"
    /\ app.tmp_audio_file = NoPath

\* C26: when _on_close has run, no converted-audio file is on disk, whatever
\* the job was doing at that moment.
C26_CloseReclaimsTemp ==
    [][ OnClose => tmpOnDisk' = {} ]_vars

\* C27: the completion callback a worker posts carries identified = TRUE iff
\* identify_speakers was called and returned a non-empty list, and then its
\* results are that list; otherwise (identification skipped, failed inside
\* identify_speakers, or returning an empty list) its results are the
\* utterances run_transcription returned and identified is FALSE.
C27_CompletionEvent ==
    [][ \A j \in JobIds :
          (WorkerPostComplete(j) /\ phase = "running") =>
              LET w == workers[j]
                  e == queue'[Len(queue')]
              IN /\ e.kind = "complete" /\ e.job = j
                 /\ e.identified <=> (w.idCalls = 1 /\ w.identified # <<>>)
                 /\ e.identified => e.results = w.identified
                 /\ ~e.identified => e.results = w.raw
                 /\ w.idCalls = 0 => w.identified = <<>> ]_vars

\* an identified completion, carrying the names in place of the labels, is
\* the next callback to run
C27_Witness ==
    /\ queue # <<>>
    /\ NextCallback(queue).kind = "complete"
    /\ NextCallback(queue).identified
    /\ NextCallback(queue).results = << <<"Alice", "hi">>, <<"Bob", "yo">> >>

\* identification was tried, returned nothing, and the raw utterances are posted
C27_WitnessFallback ==
    /\ queue # <<>>
    /\ NextCallback(queue).kind = "complete"
    /\ ~NextCallback(queue).identified
    /\ NextCallback(queue).results = << <<"A", "hi">>, <<"B", "yo">> >>
    /\ app.status_var = "Identifying speakers"

\* C28: the transcript _on_transcription_complete renders for a job shows no
\* override typed for an earlier job: it is what _render_transcript gives
\* with no rename field filled in.
C28_NoStaleOverride ==
    [][ OnTranscriptionComplete =>
          app'.result_text =
             _render_transcript(NextCallback(queue).results, <<>>, NextCallback(queue).identified) ]_vars

\* C29: _start_transcription launches the worker only for a source it has
\* found to exist, to be readable and to be non-empty, video or audio.
C29_StartOnlyVerified ==
    [][ (StartTranscription /\ startOutcome' = "started") =>
          LET f == FileInfo(app.audio_path_var)
          IN f.exists /\ f.isfile /\ f.readable /\ f.size > 0 ]_vars

------------------------------------------------------------------------------
(* Properties of the command-line program *)

\* the file named on the command line passes validate_audio_file
CliFileAccepted == Len(call.argv) = 1 /\ ValidateFile(call.argv[1]) = "ok"

CliKeyAccepted == call.env.set /\ call.env.value # ""

CliCalled(fn) == \E i \in 1..Len(call.trace) : call.trace[i] = fn

C22_WitnessTranscribed ==
    /\ call.fn = "main"
    /\ call.exit = "0"
    /\ call.stdout = <<"Speaker A: hi", "Speaker B: yo">>

\* C30: Play pressed while Playing (the stream still running) pauses the
\* stream where it is, leaves the transport Paused with no refresh timer
\* pending and the position as it was; Play pressed while Paused resumes the
\* stream from where it was paused, without loading the file again, leaves
\* the transport Playing with a refresh timer pending, and the position shown
\* is the one the stream resumes from, not 0.
C30_PauseResume ==
    [][ /\ (TogglePlayback /\ app.playing /\ app.music.state = "playing") =>
              /\ Transport' = "Paused"
              /\ app'.music = [app.music EXCEPT !.state = "paused"]
              /\ app'.position_var = app.position_var
              /\ app'.timers = 0
        /\ (TogglePlayback /\ app.paused /\ app.music.state = "paused") =>
              /\ Transport' = "Playing"
              /\ app'.music = [app.music EXCEPT !.state = "playing"]
              /\ app'.loaded_audio_path = app.loaded_audio_path
              /\ app'.timers > 0
              /\ app'.position_var = app.music.pos ]_vars

\* C31: whenever the Play button moves the transport to Playing, from Stopped
\* or from Paused, the mixer runs at the rate of the speed selected at that
\* moment.
C31_PlayAtSelectedSpeed ==
    [][ (TogglePlayback /\ Transport # "Playing" /\ Transport' = "Playing") =>
            app'.music.freq = app'.speed_var ]_vars

\* C32: choosing a speed while Playing or Paused leaves the transport as it
\* was, puts the mixer at the chosen rate, and keeps the position: the stream
\* is where it was, the position shown is unchanged, and a refresh run right
\* after would not show an earlier position.
C32_SpeedChangeKeepsPosition ==
    [][ \A speed \in SPEED_OPTIONS :
          (SpeedChange(speed) /\ Transport # "Stopped") =>
              /\ Transport' = Transport
              /\ app'.music.freq = speed
              /\ app'.music.pos = app.music.pos
              /\ app'.position_var = app.position_var
              /\ app'.playing => app'.music.elapsed >= app.position_var ]_vars

\* C33: a refresh that finds the stream ended leaves the transport Stopped,
\* the position 0 and no refresh timer pending; and every start from Stopped,
\* the one after a natural end included, plays from the beginning.
C33_NaturalEnd ==
    [][ /\ (Tick /\ app.playing /\ app.music.state # "playing") =>
              /\ Transport' = "Stopped"
              /\ app'.position_var = 0
              /\ app'.time_label = 0
              /\ app'.timers = 0
        /\ (TogglePlayback /\ Transport = "Stopped" /\ Transport' = "Playing") =>
              /\ app'.music.state = "playing"
              /\ app'.music.pos = 0
              /\ app'.position_var = 0 ]_vars

\* stopped by the refresh that found the stream ended: the timer that fired
\* is the last one
C33_Witness ==
    /\ Transport = "Stopped"
    /\ app.position_update_id = "fired"
    /\ app.music.state = "stopped"
    /\ app.music.loaded # NoPath
    /\ app.position_var = 0
    /\ app.timers = 0

------------------------------------------------------------------------------
(* Properties of job and player together *)

PlaybackState ==
    <<Transport, app.position_var, app.time_label, app.loaded_audio_path, app.speed_var,
      app.music, app.timers, app.position_update_id, app.duration>>

JobSide ==
    <<app.transcribing, app.ui_busy, app.raw_results, app.tmp_audio_file,
      app.current_audio_file, workers, queue, tmpOnDisk, savedFiles>>

JobStep ==
    \/ StartTranscription
    \/ \E j \in JobIds : workers'[j] # workers[j]
    \/ ApplyStatus \/ OnTranscriptionComplete \/ OnTranscriptionError

PlayerStep ==
    \/ TogglePlayback \/ StopPlayback \/ Tick
    \/ \E t \in Positions : Seek(t)
    \/ \E speed \in SPEED_OPTIONS : SpeedChange(speed)

C35_SeekKeepsPosition ==
    [][ \A t \in Positions :
          (Seek(t) /\ app.playing /\ app'.music.state = "playing") =>
              _update_position(app').position_var >= t ]_vars

\* C36: a job whose source validate_audio_file accepts as supported audio has
\* no conversion stage: the worker never stands at the conversion, and the
\* file submitted to the transcription is the source itself.
C36_AudioSubmittedDirectly ==
    \A j \in JobIds :
        (workers[j].pc # "idle" /\ validate_audio_file(workers[j].audio_file) = "ok") =>
            /\ workers[j].pc # "convert"
            /\ workers[j].submitted \in {NoPath, workers[j].audio_file}

\* C37: the source of a job is the file selected when it starts and stays
\* that file whatever the user selects afterwards: the completion is
\* attributed to it, and what the completion saves is saved next to it and
\* nowhere else.  The file goes from the selection to the worker's local
\* audio_file, from there into the completion event, and from the event into
\* _current_audio_file and the path of the saved transcript.
C37_SourceFixedAtStart ==
    [][ /\ (startOutcome' = "started" /\ nJobs' # nJobs) =>
              workers'[nJobs'].audio_file = app.audio_path_var
        /\ \A j \in JobIds :
              (workers[j].pc # "idle" /\ workers'[j].audio_file # NoPath) =>
                  workers'[j].audio_file = workers[j].audio_file
        /\ (Len(queue') = Len(queue) + 1 /\ queue'[Len(queue')].kind = "complete") =>
              queue'[Len(queue')].audio_file = workers[queue'[Len(queue')].job].audio_file
        /\ (queue' # queue /\ OnTranscriptionComplete) =>
              LET src == NextCallback(queue).audio_file IN
              /\ app'.current_audio_file = src
              /\ \A p \in DOMAIN savedFiles' :
                    p # TranscriptPath(src) =>
                        p \in DOMAIN savedFiles /\ savedFiles'[p] = savedFiles[p]
              /\ app'.output_path_label \in {"", "Saved: " \o Basename(TranscriptPath(src))} ]_vars

\* a job is done and saved next to its source while another file is selected
C37_Witness ==
    /\ app.status_var = "Done"
    /\ ~app.transcribing
    /\ app.audio_path_var \notin {NoPath, app.current_audio_file}
    /\ nJobs = 1
    /\ TranscriptPath(app.current_audio_file) \in DOMAIN savedFiles
    /\ TranscriptPath(app.audio_path_var) \notin DOMAIN savedFiles

\* C38: handling a Failed terminal event changes nothing but the busy state
\* (controls, progress bar, active flag), the status, which becomes "Error",
\* and the error dialog: the transcript shown, the raw results, the rename
\* map and the transcripts saved by earlier jobs stay as they were.
C38_FailureKeepsLastResult ==
    [][ (queue' # queue /\ OnTranscriptionError) =>
          /\ app'.result_text = app.result_text
          /\ app'.raw_results = app.raw_results
          /\ app'.speaker_name_vars = app.speaker_name_vars
          /\ app'.rename_shown = app.rename_shown
          /\ savedFiles' = savedFiles
          /\ ~app'.ui_busy /\ ~app'.transcribing /\ ~app'.progress_running
          /\ app'.status_var = "Error"
          /\ app' = [app EXCEPT !.ui_busy = FALSE, !.transcribing = FALSE,
                                !.progress_running = FALSE, !.status_var = "Error",
                                !.message_box = app'.message_box] ]_vars

\* the second job has failed while the first one's transcript, results,
\* rename fields and saved file are still there
C38_Witness ==
    /\ app.status_var = "Error"
    /\ nJobs = 2
    /\ Len(appliedLog) > 0 /\ appliedLog[Len(appliedLog)] = <<2, "error">>
    /\ app.raw_results # <<>>
    /\ app.result_text # <<>>
    /\ app.rename_shown /\ app.speaker_name_vars # <<>>
    /\ TranscriptPath(app.current_audio_file) \in DOMAIN savedFiles

\* C39: in what _render_transcript returns, the lines of two consecutive
\* utterances that show the same display label follow each other directly,
\* with no blank line between them, whatever the rename fields hold.
C39_NoBlankWithinDisplayLabel ==
    (call.fn = "_render_transcript" /\ call.returned /\ call.results # <<>>) =>
        LET r == call.results
            out == call.result
            Display(i) == _get_speaker_display(call.nameVars, r[i][1], call.identified)
            \* the line of utterance i, as in C12
            Pos(i) == i + Cardinality({ k \in 2..i : r[k][1] # r[k - 1][1] })
        IN
        \A i \in 2..Len(r) :
            Display(i) = Display(i - 1) => out[Pos(i) - 1] # ""

\* C40: the rename map that _build_rename_fields builds from non-empty results
\* has one empty field for every distinct original label of the results, in
\* the order in which the labels first occur, however many labels there are.
C40_FieldForEverySpeaker ==
    (call.fn = "_build_rename_fields" /\ call.returned /\ call.results # <<>>) =>
        LET r == call.results
            fields == call.result
            First(label) == CHOOSE i \in 1..Len(r) :
                               r[i][1] = label /\ \A k \in 1..(i - 1) : r[k][1] # label
        IN
        /\ \A i \in 1..Len(r) : \E k \in 1..Len(fields) : fields[k].label = r[i][1]
        /\ \A k \in 1..Len(fields) :
              /\ fields[k].value = ""
              /\ \E i \in 1..Len(r) : r[i][1] = fields[k].label
        /\ \A k, l \in 1..Len(fields) :
              k < l => First(fields[k].label) < First(fields[l].label)

==============================================================================
